---- MODULE Spec2Model ----
(***************************************************************************)
(* Model of deb.Package (src/deb/deb.go): the data archive builder         *)
(* createDataTarGz, the control archive builder createControl and the      *)
(* container assembler (ar writer + addArFile).                            *)
(*                                                                         *)
(* Byte streams are modelled by their structure.  A file's content is a    *)
(* sequence of chunks of ChunkBytes bytes; a tar stream is the sequence of *)
(* records handed to the tar writer; a gzip stream is a marker record      *)
(* followed by the records it compresses; the output sink is the sequence  *)
(* of writes it received.  len() of a stream is the length of that         *)
(* sequence.  md5 is modelled as an injective digest of the bytes fed in.  *)
(***************************************************************************)
EXTENDS Integers, Sequences, FiniteSets, TLC

\* ---------------------------------------------------------------- bounds
MaxFiles == 2
MaxClock == 1

\* ------------------------------------------------------ program constants
KiB == 1024
ArMode == 420
ChunkBytes == KiB \div 2

Nil == [kind |-> "nil"]

\* ------------------------------------------------------------ environment
\* A path of the local filesystem: what os.Open, File.Stat and File.Read
\* observe for it.
FS(path) ==
    CASE path = <<"/", "n", "x">> -> [kind |-> "missing", mode |-> 0,   content |-> <<>>,
                          statErr |-> FALSE, readErr |-> FALSE]
      [] path = <<"/", "d">>  -> [kind |-> "dir",  mode |-> 493, content |-> <<>>,
                          statErr |-> FALSE, readErr |-> FALSE]
      [] path = <<"/", "e">>  -> [kind |-> "file", mode |-> 420, content |-> <<>>,
                          statErr |-> FALSE, readErr |-> FALSE]
      [] path = <<"/", "a">>  -> [kind |-> "file", mode |-> 493, content |-> <<"a1">>,
                          statErr |-> FALSE, readErr |-> FALSE]
      [] path = <<"/", "b">>  -> [kind |-> "file", mode |-> 420,
                          content |-> <<"b1", "b2", "b3">>,
                          statErr |-> FALSE, readErr |-> FALSE]
      [] path = <<"/", "s">>  -> [kind |-> "file", mode |-> 420, content |-> <<"s1">>,
                          statErr |-> TRUE, readErr |-> FALSE]
      [] path = <<"/", "r">>  -> [kind |-> "file", mode |-> 420, content |-> <<"r1">>,
                          statErr |-> FALSE, readErr |-> TRUE]

\* pkg.File values the caller may pass.  Paths are strings of characters
\* (the code slices Dst).
FileChoices ==
    { [Src |-> <<"/", "n", "x">>, Dst |-> <<".", "/", "n">>],
      [Src |-> <<"/", "d">>,  Dst |-> <<".", "/", "d">>],
      [Src |-> <<"/", "e">>,  Dst |-> <<".", "/", "e">>],
      [Src |-> <<"/", "a">>,  Dst |-> <<".", "/", "a">>],
      [Src |-> <<"/", "b">>,  Dst |-> <<".", "/", "u", "/", "b">>],
      [Src |-> <<"/", "s">>,  Dst |-> <<".", "/", "s">>],
      [Src |-> <<"/", "r">>,  Dst |-> <<".", "/", "r">>],
      [Src |-> <<"/", "a">>,  Dst |-> <<".", "/", "NUL">>],
      [Src |-> <<"/", "a">>,  Dst |-> <<"x">>] }

\* pkg.Info values the caller may pass.
BaseInfo ==
    [Name |-> "demo", Version |-> "1.0", Section |-> "misc",
     Priority |-> "extra", Arch |-> "amd64", Maintainer |-> "me",
     Vendor |-> "acme", Replaces |-> "", Provides |-> "",
     Depends |-> <<>>, Conflicts |-> <<>>, Homepage |-> "http://h",
     Description |-> "d"]

InfoChoices ==
    { BaseInfo,
      [BaseInfo EXCEPT !.Depends = << <<"a">>, <<"b", " ">> >>,
                       !.Conflicts = << <<" ", "c">> >>] }

SeqsUpTo(S, n) == UNION { [1..k -> S] : k \in 0..n }

\* archive/tar rejects a header whose name cannot be encoded.
TarAccepts(name) == \A k \in 1..Len(name) : name[k] # "NUL"


\* ------------------------------------------------------------------ state
VARIABLES
    files,         \* Package argument: the []pkg.File
    info,          \* Package argument: the pkg.Info
    clock,         \* the wall clock time.Now() reads
    now,           \* Package local: the captured build time
    pc,            \* position in Package / createDataTarGz
    i,             \* createDataTarGz: index of the range loop (1-based)
    handles,       \* one record per os.Open that succeeded, in order
    instSize,      \* createDataTarGz: running installed size in bytes
    header,        \* createDataTarGz: tar.Header of the current file
    out,           \* createDataTarGz: records written to the tar writer
    md5buf,        \* createDataTarGz: ledger lines written so far
    dataTarGz,     \* Package local: result of createDataTarGz
    md5sums,       \* Package local: result of createDataTarGz
    controlTarGz,  \* Package local: result of createControl
    member,        \* Package: index of the next addArFile call (1..3)
    sink,          \* the writes the io.Writer deb has received
    err,           \* the error Package returned (Nil: none)
    ran,           \* components entered so far
    run,           \* how many times the caller has invoked Package
    prev           \* outcome of the caller's previous invocation

vars == <<files, info, clock, now, pc, i, handles, instSize, header, out,
          md5buf, dataTarGz, md5sums, controlTarGz, member, sink, err, ran,
          run, prev>>

\* ---------------------------------------------------------- pure helpers
\* len() of a file content in bytes.
ByteLen(chunks) == Len(chunks) * ChunkBytes

\* os.FileInfo returned by File.Stat.
Stat(path) ==
    [IsDir |-> FS(path).kind = "dir",
     Size  |-> ByteLen(FS(path).content),
     Mode  |-> FS(path).mode]

\* What reading a handle to EOF yields: the bytes after its offset.
ReadAll(h) == SubSeq(FS(h.src).content, h.pos + 1, Len(FS(h.src).content))

\* The handle after it has been read to EOF.
AtEOF(h) == [h EXCEPT !.pos = Len(FS(h.src).content)]

\* The deferred f.Close() calls, run when createDataTarGz returns.
CloseAll(hs) == [k \in 1..Len(hs) |-> [hs[k] EXCEPT !.open = FALSE]]

\* md5: digest of the bytes written into the hash; "%x" of a digest.
MD5(bytes) == [md5 |-> bytes]
Hex(digest) == [hex |-> digest]

\* name[2:]
DropTwo(name) == SubSeq(name, 3, Len(name))

\* fmt.Fprintf(&md5buf, "%x  %s\n", digest, header.Name[2:])
LedgerLine(digest, name) == <<Hex(digest), "  ", DropTwo(name), "\n">>

\* DataHeader with ModTime taken from a fresh time.Now() instead of the
\* captured build time.
DataHeaderAtClock(file, st, t) ==
    [t |-> "hdr", Name |-> file.Dst, Size |-> st.Size, Mode |-> st.Mode,
     ModTime |-> clock]

\* The tar.Header createDataTarGz builds for a regular file.
DataHeader(file, st, t) ==
    [t |-> "hdr", Name |-> file.Dst, Size |-> st.Size, Mode |-> st.Mode,
     ModTime |-> t]

\* tar.Writer: bytes still owed to the entry opened by the last header.
RECURSIVE TarWritten(_)
TarWritten(recs) ==
    IF recs = <<>> \/ recs[Len(recs)].t = "hdr" THEN 0
    ELSE recs[Len(recs)].n + TarWritten(SubSeq(recs, 1, Len(recs) - 1))

RECURSIVE TarLastSize(_)
TarLastSize(recs) ==
    IF recs = <<>> THEN 0
    ELSE IF recs[Len(recs)].t = "hdr" THEN recs[Len(recs)].Size
    ELSE TarLastSize(SubSeq(recs, 1, Len(recs) - 1))

TarRemaining(recs) == TarLastSize(recs) - TarWritten(recs)

\* tar.Writer.Write of a non-empty byte slice; io.Copy never writes an
\* empty one.
TarWrite(recs, bytes, n) ==
    IF n = 0 THEN recs ELSE Append(recs, [t |-> "body", bytes |-> bytes, n |-> n])

TarTrailer == [t |-> "trailer"]

\* gzip.Writer over a bytes.Buffer: the compressed stream of the records.
Gzip(recs) == <<[t |-> "gzip"]>> \o recs

\* Errors, by the message the code formats.
\* OpenError formatted with file.Dst in place of file.Src.
OpenErrorNamingDst(file) == [kind |-> "open", path |-> file.Dst]

OpenError(file) == [kind |-> "open", path |-> file.Src]

HeaderError(h) == [kind |-> "tarheader", path |-> h.Name]
BodyError(h) == [kind |-> "tarbody", path |-> h.Name]
RawCopyError == [kind |-> "copy"]
CloseError == [kind |-> "tarclose"]
ArGlobalError == [kind |-> "arglobal"]
ArMemberError(name) == [kind |-> "armember", path |-> name]

\* ------------------------------------------------------- createControl
\* strings.Join(strs, ", ")
RECURSIVE JoinComma(_)
JoinComma(strs) ==
    IF strs = <<>> THEN <<>>
    ELSE IF Len(strs) = 1 THEN strs[1]
    ELSE strs[1] \o <<",", " ">> \o JoinComma(Tail(strs))

\* strings.Trim(s, " ")
RECURSIVE TrimLeft(_)
TrimLeft(s) == IF s # <<>> /\ s[1] = " " THEN TrimLeft(Tail(s)) ELSE s

RECURSIVE TrimRight(_)
TrimRight(s) ==
    IF s # <<>> /\ s[Len(s)] = " "
    THEN TrimRight(SubSeq(s, 1, Len(s) - 1)) ELSE s

\* the template function "join"
join(strs) == TrimRight(TrimLeft(JoinComma(strs)))

\* InstalledSize rounding up instead of truncating.
InstalledSizeRoundedUp(size) == (size + KiB - 1) \div KiB

\* controlData.InstalledSize as createControl sets it.
InstalledSize(size) == size \div KiB

\* controlTemplate executed on controlData{Info, InstalledSize}.
RenderControl(inf, kib) ==
    << <<"Package", inf.Name>>,
       <<"Version", inf.Version>>,
       <<"Section", inf.Section>>,
       <<"Priority", inf.Priority>>,
       <<"Architecture", inf.Arch>>,
       <<"Maintainer", inf.Maintainer>>,
       <<"Vendor", inf.Vendor>>,
       <<"Installed-Size", kib>>,
       <<"Replaces", inf.Replaces>>,
       <<"Provides", inf.Provides>>,
       <<"Depends", join(inf.Depends)>>,
       <<"Conflicts", join(inf.Conflicts)>>,
       <<"Homepage", inf.Homepage>>,
       <<"Description", inf.Description>> >>

ControlHeader(name, body, t) ==
    [t |-> "hdr", Name |-> name, Size |-> Len(body), Mode |-> ArMode,
     ModTime |-> t, Typeflag |-> "TypeReg"]

\* The records createControl writes to its tar writer, in order.
ControlRecords(t, size, sums, inf) ==
    LET body == RenderControl(inf, InstalledSize(size))
    IN  << ControlHeader("control", body, t),
           [t |-> "body", bytes |-> body, n |-> Len(body)],
           ControlHeader("md5sums", sums, t),
           [t |-> "body", bytes |-> sums, n |-> Len(sums)],
           TarTrailer >>

\* ----------------------------------------------------- container (ar)
ArGlobalHeader == [t |-> "global"]

\* ar.Header built by addArFile.
ArHeader(t, name, body) ==
    [t |-> "hdr", Name |-> name, Size |-> Len(body), Mode |-> ArMode,
     ModTime |-> t]

\* ArMembers with the data archive added before the control archive.
ArMembersDataFirst(control, data) ==
    << [name |-> "debian-binary", body |-> <<"2", ".", "0", "\n">>],
       [name |-> "data.tar.gz", body |-> data],
       [name |-> "control.tar.gz", body |-> control] >>

\* The three addArFile calls of Package, in program order.
ArMembers(control, data) ==
    << [name |-> "debian-binary", body |-> <<"2", ".", "0", "\n">>],
       [name |-> "control.tar.gz", body |-> control],
       [name |-> "data.tar.gz", body |-> data] >>

\* ------------------------------------------------------------------ Init
Init ==
    /\ files \in SeqsUpTo(FileChoices, MaxFiles)
    /\ info \in InfoChoices
    /\ clock = 0
    /\ now = -1
    /\ pc = "start"
    /\ i = 1
    /\ handles = <<>>
    /\ instSize = 0
    /\ header = Nil
    /\ out = <<>>
    /\ md5buf = <<>>
    /\ dataTarGz = Nil
    /\ md5sums = Nil
    /\ controlTarGz = Nil
    /\ member = 1
    /\ sink = <<>>
    /\ err = Nil
    /\ ran = {}
    /\ run = 1
    /\ prev = Nil

\* --------------------------------------------------------------- actions
\* The wall clock advances on its own.
Tick ==
    /\ clock < MaxClock
    /\ clock' = clock + 1
    /\ UNCHANGED <<files, info, now, pc, i, handles, instSize, header, out,
                   md5buf, dataTarGz, md5sums, controlTarGz, member, sink,
                   err, ran, run, prev>>

\* Package: now = time.Now(), then createDataTarGz is entered.
PackageStart ==
    /\ pc = "start"
    /\ now' = clock
    /\ ran' = ran \cup {"data"}
    /\ pc' = "loop"
    /\ UNCHANGED <<files, info, clock, i, handles, instSize, header, out,
                   md5buf, dataTarGz, md5sums, controlTarGz, member, sink,
                   err, run, prev>>

\* createDataTarGz returns (nil, nil, 0, e); its deferred closes run and
\* Package returns e.
FailData(e) ==
    /\ err' = e
    /\ handles' = CloseAll(handles)
    /\ pc' = "done"

\* for _, file := range files { f, err := os.Open(file.Src) ... defer f.Close()
OpenFile ==
    /\ pc = "loop"
    /\ i <= Len(files)
    /\ IF FS(files[i].Src).kind = "missing"
       THEN /\ FailData(OpenError(files[i]))
            /\ UNCHANGED <<files, info, clock, now, i, instSize, header, out,
                           md5buf, dataTarGz, md5sums, controlTarGz, member,
                           sink, ran, run, prev>>
       ELSE /\ handles' = Append(handles,
                                 [src |-> files[i].Src, pos |-> 0, open |-> TRUE])
            /\ pc' = "stat"
            /\ UNCHANGED <<files, info, clock, now, i, instSize, header, out,
                           md5buf, dataTarGz, md5sums, controlTarGz, member,
                           sink, err, ran, run, prev>>

\* info, err := f.Stat(); if err != nil || info.IsDir() { continue };
\* instSize += info.Size(); header = tar.Header{...}
StatFile ==
    /\ pc = "stat"
    /\ IF FS(files[i].Src).statErr \/ Stat(files[i].Src).IsDir
       THEN /\ i' = i + 1
            /\ pc' = "loop"
            /\ UNCHANGED <<instSize, header>>
       ELSE /\ instSize' = instSize + Stat(files[i].Src).Size
            /\ header' = DataHeader(files[i], Stat(files[i].Src), now)
            /\ pc' = "header"
            /\ UNCHANGED i
    /\ UNCHANGED <<files, info, clock, now, handles, out, md5buf, dataTarGz,
                   md5sums, controlTarGz, member, sink, err, ran, run, prev>>

\* out.WriteHeader(&header)
WriteDataHeader ==
    /\ pc = "header"
    /\ IF TarAccepts(header.Name) /\ TarRemaining(out) = 0
       THEN /\ out' = Append(out, header)
            /\ pc' = "copy"
            /\ UNCHANGED <<handles, err>>
       ELSE /\ FailData(HeaderError(header))
            /\ UNCHANGED out
    /\ UNCHANGED <<files, info, clock, now, i, instSize, header, md5buf,
                   dataTarGz, md5sums, controlTarGz, member, sink, ran, run,
                   prev>>

\* io.Copy(out, f)
CopyBody ==
    /\ pc = "copy"
    /\ LET h == handles[Len(handles)]
           bytes == ReadAll(h)
       IN  IF FS(h.src).readErr \/ ByteLen(bytes) > TarRemaining(out)
           THEN /\ FailData(BodyError(header))
                /\ UNCHANGED out
           ELSE /\ out' = TarWrite(out, bytes, ByteLen(bytes))
                /\ handles' = [handles EXCEPT ![Len(handles)] = AtEOF(h)]
                /\ pc' = "digest"
                /\ UNCHANGED err
    /\ UNCHANGED <<files, info, clock, now, i, instSize, header, md5buf,
                   dataTarGz, md5sums, controlTarGz, member, sink, ran, run,
                   prev>>

\* digest = md5.New(); io.Copy(out, io.TeeReader(f, digest));
\* fmt.Fprintf(&md5buf, "%x  %s\n", digest.Sum(md5tmp), header.Name[2:])
DigestFile ==
    /\ pc = "digest"
    /\ LET h == handles[Len(handles)]
           bytes == ReadAll(h)
       IN  IF ByteLen(bytes) > TarRemaining(out)
           THEN /\ FailData(RawCopyError)
                /\ UNCHANGED <<out, md5buf, i>>
           ELSE IF Len(header.Name) < 2
           THEN \* slice bounds out of range: the goroutine panics
                /\ out' = TarWrite(out, bytes, ByteLen(bytes))
                /\ handles' = CloseAll([handles EXCEPT ![Len(handles)] = AtEOF(h)])
                /\ pc' = "panic"
                /\ UNCHANGED <<md5buf, i, err>>
           ELSE /\ out' = TarWrite(out, bytes, ByteLen(bytes))
                /\ handles' = [handles EXCEPT ![Len(handles)] = AtEOF(h)]
                /\ md5buf' = Append(md5buf, LedgerLine(MD5(bytes), header.Name))
                /\ i' = i + 1
                /\ pc' = "loop"
                /\ UNCHANGED err
    /\ UNCHANGED <<files, info, clock, now, instSize, header, dataTarGz,
                   md5sums, controlTarGz, member, sink, ran, run, prev>>

\* out.Close(); compress.Close(); return buf.Bytes(), md5buf.Bytes(),
\* instSize, nil
CloseDataTar ==
    /\ pc = "loop"
    /\ i > Len(files)
    /\ IF TarRemaining(out) = 0
       THEN /\ dataTarGz' = Gzip(Append(out, TarTrailer))
            /\ md5sums' = md5buf
            /\ handles' = CloseAll(handles)
            /\ pc' = "control"
            /\ UNCHANGED err
       ELSE /\ FailData(CloseError)
            /\ UNCHANGED <<dataTarGz, md5sums>>
    /\ UNCHANGED <<files, info, clock, now, i, instSize, header, out, md5buf,
                   controlTarGz, member, sink, ran, run, prev>>

\* controlTarGz, err := createControl(now, instSize, md5sums, info)
CreateControl ==
    /\ pc = "control"
    /\ controlTarGz' = Gzip(ControlRecords(now, instSize, md5sums, info))
    /\ ran' = ran \cup {"control"}
    /\ pc' = "ar"
    /\ UNCHANGED <<files, info, clock, now, i, handles, instSize, header, out,
                   md5buf, dataTarGz, md5sums, member, sink, err, run, prev>>

\* w := ar.NewWriter(deb); w.WriteGlobalHeader().  A write to the sink may
\* fail.
WriteGlobalHeader ==
    /\ pc = "ar"
    /\ ran' = ran \cup {"ar"}
    /\ \E ok \in BOOLEAN :
          IF ok
          THEN /\ sink' = Append(sink, ArGlobalHeader)
               /\ pc' = "member"
               /\ UNCHANGED err
          ELSE /\ err' = ArGlobalError
               /\ pc' = "done"
               /\ UNCHANGED sink
    /\ UNCHANGED <<files, info, clock, now, i, handles, instSize, header, out,
                   md5buf, dataTarGz, md5sums, controlTarGz, member, run, prev>>

\* addArFile(now, w, name, body): w.WriteHeader(&header); w.Write(body)
AddArFile ==
    /\ pc = "member"
    /\ LET m == ArMembers(controlTarGz, dataTarGz)[member]
           hdr == ArHeader(now, m.name, m.body)
       IN  \E outcome \in {"ok", "header fails", "body fails"} :
              IF outcome = "header fails"
              THEN /\ err' = ArMemberError(m.name)
                   /\ pc' = "done"
                   /\ UNCHANGED <<sink, member>>
              ELSE IF outcome = "body fails"
              THEN /\ sink' = Append(sink, hdr)
                   /\ err' = ArMemberError(m.name)
                   /\ pc' = "done"
                   /\ UNCHANGED member
              ELSE /\ sink' = sink \o <<hdr, [t |-> "body", bytes |-> m.body]>>
                   /\ member' = member + 1
                   /\ pc' = IF member = 3 THEN "done" ELSE "member"
                   /\ UNCHANGED err
    /\ UNCHANGED <<files, info, clock, now, i, handles, instSize, header, out,
                   md5buf, dataTarGz, md5sums, controlTarGz, ran, run, prev>>

\* The caller invokes Package again with the same arguments and a fresh
\* sink, keeping the first outcome for comparison.
Rebuild ==
    /\ pc = "done"
    /\ run = 1
    /\ run' = 2
    /\ prev' = [sink |-> sink, err |-> err, now |-> now]
    /\ now' = -1
    /\ pc' = "start"
    /\ i' = 1
    /\ handles' = <<>>
    /\ instSize' = 0
    /\ header' = Nil
    /\ out' = <<>>
    /\ md5buf' = <<>>
    /\ dataTarGz' = Nil
    /\ md5sums' = Nil
    /\ controlTarGz' = Nil
    /\ member' = 1
    /\ sink' = <<>>
    /\ err' = Nil
    /\ ran' = {}
    /\ UNCHANGED <<files, info, clock>>

Next ==
    \/ Tick
    \/ PackageStart
    \/ OpenFile
    \/ StatFile
    \/ WriteDataHeader
    \/ CopyBody
    \/ DigestFile
    \/ CloseDataTar
    \/ CreateControl
    \/ WriteGlobalHeader
    \/ AddArFile

Spec == Init /\ [][Next]_vars

NextTwice == Next \/ Rebuild

SpecTwice == Init /\ [][NextTwice]_vars

\* ------------------------------------------------- vocabulary of the claims
\* The entries a tar stream holds: each header with the bytes written
\* after it and before the next header.  A body with no header before it
\* is counted by Orphans.
RECURSIVE Entries(_)
Entries(recs) ==
    IF recs = <<>> THEN <<>>
    ELSE LET r == recs[Len(recs)]
             rest == Entries(SubSeq(recs, 1, Len(recs) - 1))
         IN  IF r.t = "hdr" THEN Append(rest, [hdr |-> r, bytes |-> <<>>])
             ELSE IF r.t = "body" /\ rest # <<>>
             THEN [rest EXCEPT ![Len(rest)].bytes = @ \o r.bytes]
             ELSE rest

Orphans(recs) ==
    Cardinality({k \in 1..Len(recs) :
                    /\ recs[k].t = "body"
                    /\ \A j \in 1..(k - 1) : recs[j].t # "hdr"})

IsRegular(f) == FS(f.Src).kind = "file"
IsDirectory(f) == FS(f.Src).kind = "dir"
CannotOpen(f) == FS(f.Src).kind = "missing"

\* The input entries whose source is a regular file, in input order.
RegularFiles == SelectSeq(files, IsRegular)

RECURSIVE SumSizes(_)
SumSizes(fs) ==
    IF fs = <<>> THEN 0
    ELSE Len(FS(fs[1].Src).content) * ChunkBytes + SumSizes(Tail(fs))

DataSucceeded == dataTarGz # Nil
Succeeded == pc = "done" /\ err = Nil

IsPrefix(s, t) == Len(s) <= Len(t) /\ s = SubSeq(t, 1, Len(s))

\* C1: on success the sink holds the global header, then debian-binary
\* ("2.0\n"), then control.tar.gz, then data.tar.gz, each as a header
\* carrying the body's length followed by the body, and nothing else; at
\* every moment the sink holds a prefix of that sequence.
C1_Expected ==
    << [t |-> "global"],
       [t |-> "hdr", Name |-> "debian-binary", Size |-> 4, Mode |-> ArMode,
        ModTime |-> now],
       [t |-> "body", bytes |-> <<"2", ".", "0", "\n">>],
       [t |-> "hdr", Name |-> "control.tar.gz", Size |-> Len(controlTarGz),
        Mode |-> ArMode, ModTime |-> now],
       [t |-> "body", bytes |-> controlTarGz],
       [t |-> "hdr", Name |-> "data.tar.gz", Size |-> Len(dataTarGz),
        Mode |-> ArMode, ModTime |-> now],
       [t |-> "body", bytes |-> dataTarGz] >>

C1_ContainerOrder ==
    /\ "ar" \notin ran => sink = <<>>
    /\ "ar" \in ran => IsPrefix(sink, C1_Expected)
    /\ Succeeded => sink = C1_Expected

C1_Witness ==
    /\ Succeeded
    /\ Len(sink) = 7
    /\ Len(Entries(dataTarGz)) = 2

\* C2: every ledger line carries the digest of the bytes written into the
\* data archive as the body of the entry the line belongs to.
C2_DigestOfBody ==
    \A k \in 1..Len(md5buf) :
        md5buf[k][1] = Hex(MD5(Entries(out)[k].bytes))

\* C3: after a successful createDataTarGz the ledger has one line per
\* regular-file entry, in input order, each with the destination path less
\* its first two characters.
C3_LedgerPerRegularFile ==
    DataSucceeded =>
        /\ Len(md5sums) = Len(RegularFiles)
        /\ \A k \in 1..Len(md5sums) :
              k <= Len(RegularFiles) =>
                 md5sums[k][3] = SubSeq(RegularFiles[k].Dst, 3,
                                        Len(RegularFiles[k].Dst))

\* C4: after a successful createDataTarGz the installed size is the sum of
\* the on-disk sizes of the regular-file entries.
C4_InstalledSizeSum ==
    DataSucceeded => instSize = SumSizes(RegularFiles)

C6_Fails(f) ==
    /\ IsRegular(f)
    /\ \/ FS(f.Src).statErr
       \/ FS(f.Src).readErr
       \/ ~TarAccepts(f.Dst)

C6_FailureAborts ==
    \A k \in 1..Len(files) :
        C6_Fails(files[k]) =>
            /\ i <= k
            /\ dataTarGz = Nil
            /\ pc = "done" /\ i = k =>
                  /\ err.kind \in {"tarheader", "tarbody"}
                  /\ err.path \in {files[k].Src, files[k].Dst}

\* C7: on success the data archive holds one entry per regular-file input
\* entry, in input order, named by the destination path, with the on-disk
\* size in the header and exactly that many body bytes after the header.
C7_DataEntries ==
    DataSucceeded =>
        /\ Orphans(out) = 0
        /\ Len(Entries(out)) = Len(RegularFiles)
        /\ \A k \in 1..Len(Entries(out)) :
              k <= Len(RegularFiles) =>
                 LET e == Entries(out)[k]
                     f == RegularFiles[k]
                 IN  /\ e.hdr.Name = f.Dst
                     /\ e.hdr.Size = Len(FS(f.Src).content) * ChunkBytes
                     /\ Len(e.bytes) * ChunkBytes = e.hdr.Size
                     /\ e.bytes = FS(f.Src).content

\* C8: every header of the data archive, the control archive and the
\* container carries the time captured at the start of the build, and two
\* successful builds of the same arguments with the same captured time
\* write the same sequence to their sinks.
HeadersCarry(recs, t) ==
    \A k \in 1..Len(recs) : recs[k].t = "hdr" => recs[k].ModTime = t

C8_Reproducible ==
    /\ HeadersCarry(out, now)
    /\ controlTarGz # Nil => HeadersCarry(controlTarGz, now)
    /\ dataTarGz # Nil => HeadersCarry(dataTarGz, now)
    /\ HeadersCarry(sink, now)
    /\ run = 2 /\ Succeeded /\ prev.err = Nil /\ prev.now = now =>
          sink = prev.sink

C8_Witness ==
    /\ run = 2
    /\ Succeeded
    /\ prev.err = Nil
    /\ prev.now = now
    /\ clock > now
    /\ Len(Entries(dataTarGz)) = 2
    /\ sink = prev.sink

\* C9: the control archive holds exactly two entries: the control record,
\* whose Installed-Size is the installed byte total divided by 1024 and
\* truncated, then md5sums, whose body is the ledger of the data builder.
C9_ControlArchive ==
    controlTarGz # Nil =>
        /\ Len(controlTarGz) = 6
        /\ Len(Entries(controlTarGz)) = 2
        /\ Orphans(controlTarGz) = 0
        /\ controlTarGz[2].t = "hdr" /\ controlTarGz[2].Name = "control"
        /\ controlTarGz[3].t = "body"
        /\ controlTarGz[3].bytes[8] = <<"Installed-Size", instSize \div KiB>>
        /\ controlTarGz[2].Size = Len(controlTarGz[3].bytes)
        /\ controlTarGz[4].t = "hdr" /\ controlTarGz[4].Name = "md5sums"
        /\ controlTarGz[5].t = "body"
        /\ controlTarGz[5].bytes = md5buf
        /\ controlTarGz[4].Size = Len(md5buf)

C9_Witness ==
    /\ controlTarGz # Nil
    /\ instSize % KiB # 0
    /\ instSize > KiB
    /\ Len(md5buf) = 2

\* C10: at most one source file handle is open at any moment.
OpenCount(hs) == Cardinality({k \in 1..Len(hs) : hs[k].open})

C10_OneHandleOpen == OpenCount(handles) <= 1
====
